---- MODULE Spec2Model ----
(***************************************************************************)
(* Model of app.py (UTC-Uvira, Streamlit script).                          *)
(*                                                                         *)
(* Two specifications are given.                                           *)
(*   Spec      the visit counter: several browser sessions, each running   *)
(*             the script any number of times, sharing visits.json.  The   *)
(*             read and the write of count_visit are separate steps, as    *)
(*             nothing in the code makes them atomic.                      *)
(*   SpecFlow  one evaluation of the script from load_melanges() to the    *)
(*             end of the rendering loop, over a bounded family of         *)
(*             melanges.json contents.                                     *)
(***************************************************************************)
EXTENDS Integers, Sequences, FiniteSets, TLC

VARIABLES
    COUNTER_FILE,     \* contents of visits.json
    visit_counted,    \* st.session_state.visit_counted, per session
    pc,               \* where each session's current script run stands
    data,             \* count_visit's local `data`, per session
    visits,           \* the script's `visits`, per session
    run,              \* history: "none", or the session's current/last run:
                      \*   "first" (lines 99-101) or "later" (lines 102-110)
    calls,            \* history: number of count_visit() calls, per session
    completed,        \* history: number of count_visit() calls that returned
    stored0,          \* history: the initial contents of visits.json
    DATA_FILE,        \* contents of melanges.json
    cache,            \* st.cache_data's entry for load_melanges
    fpc,              \* where the evaluation of lines 115-195 stands
    load_ran,         \* history: "no", "body" (lines 75-94 ran) or "cache"
    melanges,         \* the script's `melanges`
    objectif_map,     \* the script's `objectif_map`, in insertion order
    objectifs_affiches, \* the script's `objectifs_affiches`
    objectif_label,   \* the script's `objectif_label`
    recs,             \* the script's `recs`
    ui                \* the st.* elements rendered so far, in order

cvars == <<COUNTER_FILE, visit_counted, pc, data, visits, run, calls,
           completed, stored0>>

fvars == <<DATA_FILE, cache, fpc, load_ran, melanges, objectif_map,
           objectifs_affiches, objectif_label, recs, ui>>

vars == <<cvars, fvars>>

(***************************************************************************)
(* Bounds.                                                                 *)
(***************************************************************************)
NumSessions == 3
MaxStored == 5
MaxRecs == 2
MaxEntries == 2

Sessions == 1..NumSessions

(***************************************************************************)
(* JSON values of the "visits" field, and the documents visits.json holds. *)
(* A float f stands for the number f.v + 0.5; "str" is a string that is    *)
(* not a numeral, such as "abc".                                           *)
(***************************************************************************)
IntVal(n) == [t |-> "int", v |-> n]
Absent == [t |-> "absent", v |-> 0]
StrVal == [t |-> "str", v |-> 0]
NullVal == [t |-> "null", v |-> 0]
FloatVal(n) == [t |-> "float", v |-> n]
Unset == [t |-> "unset", v |-> 0]

Missing == [kind |-> "missing", visits |-> Absent]
Invalid == [kind |-> "invalid", visits |-> Absent]
NonDict == [kind |-> "nondict", visits |-> Absent]
Dict(val) == [kind |-> "dict", visits |-> val]

IsIntDoc(d) == d.kind = "dict" /\ d.visits.t = "int"

InitialFiles ==
    {Missing, Invalid, NonDict, Dict(Absent), Dict(StrVal), Dict(NullVal),
     Dict(FloatVal(2))}
    \cup {Dict(IntVal(n)) : n \in {-1, 0, 1, MaxStored}}

(***************************************************************************)
(* count_visit, lines 33-41: the document read, or {"visits": 0}.          *)
(***************************************************************************)
ReadDocument(f) ==
    IF f.kind = "dict" THEN f ELSE Dict(IntVal(0))

(***************************************************************************)
(* data.get("visits", 0) and int(...), line 43.  int() raises on None and  *)
(* on a string that is not a numeral; it truncates a float.                *)
(***************************************************************************)
GetVisits(d) == IF d.visits.t = "absent" THEN IntVal(0) ELSE d.visits

IntRaises(val) == val.t \in {"str", "null"}

IntOf(val) == val.v

NewVisitsNoAdd(d) == IntOf(GetVisits(d))

NewVisitsTwice(d) == IntOf(GetVisits(d)) + 2

NewVisits(d) == IntOf(GetVisits(d)) + 1

(***************************************************************************)
(* The read-only branch, lines 104-110.                                    *)
(***************************************************************************)
PeekValue(f) ==
    IF f.kind = "dict" THEN GetVisits(f) ELSE IntVal(0)

(***************************************************************************)
(* Text.  A Python str is a sequence of characters; the characters used    *)
(* are named: "S", "s", "E", "e", "Eacute" (U+00C9), "eacute" (U+00E9),    *)
(* "acute" (the combining mark U+0301), "rsquo" (U+2019), "apos" ('),      *)
(* "sp" (space), "5", "," and "-" (the placeholder dash).                  *)
(***************************************************************************)
CodePoint(c) ==
    CASE c = "sp" -> 32
      [] c = "apos" -> 39
      [] c = "," -> 44
      [] c = "5" -> 53
      [] c = "E" -> 69
      [] c = "S" -> 83
      [] c = "e" -> 101
      [] c = "s" -> 115
      [] c = "Eacute" -> 201
      [] c = "eacute" -> 233
      [] c = "acute" -> 769
      [] c = "rsquo" -> 8217
      [] c = "-" -> 8212

(***************************************************************************)
(* JSON values: a field that is absent, a string, a number (5), a list.    *)
(***************************************************************************)
AbsentV == [t |-> "absent", s |-> <<>>, l |-> <<>>]
Str(chars) == [t |-> "str", s |-> chars, l |-> <<>>]
Num == [t |-> "num", s |-> <<>>, l |-> <<>>]
List(elems) == [t |-> "list", s |-> <<>>, l |-> elems]

(***************************************************************************)
(* normalize, lines 55-68.                                                 *)
(***************************************************************************)
LowerChar(c) ==
    CASE c = "S" -> "s"
      [] c = "E" -> "e"
      [] c = "Eacute" -> "eacute"
      [] OTHER -> c

Lower(str) == [i \in 1..Len(str) |-> LowerChar(str[i])]

ReplaceApostrophe(str) ==
    [i \in 1..Len(str) |-> IF str[i] = "rsquo" THEN "apos" ELSE str[i]]

NFDChar(c) ==
    CASE c = "eacute" -> <<"e", "acute">>
      [] c = "Eacute" -> <<"E", "acute">>
      [] OTHER -> <<c>>

RECURSIVE NFD(_)
NFD(str) ==
    IF str = <<>> THEN <<>> ELSE NFDChar(Head(str)) \o NFD(Tail(str))

IsMn(c) == c = "acute"

RemoveMn(str) == SelectSeq(str, LAMBDA c : ~IsMn(c))

IsSpace(c) == c = "sp"

RECURSIVE LStrip(_)
LStrip(str) ==
    IF str # <<>> /\ IsSpace(Head(str)) THEN LStrip(Tail(str)) ELSE str

RECURSIVE RStrip(_)
RStrip(str) ==
    IF str # <<>> /\ IsSpace(str[Len(str)])
    THEN RStrip(SubSeq(str, 1, Len(str) - 1))
    ELSE str

Strip(str) == RStrip(LStrip(str))

normalize(text) ==
    IF text.t # "str"
    THEN <<>>
    ELSE Strip(RemoveMn(NFD(ReplaceApostrophe(Lower(text.s)))))

(***************************************************************************)
(* `for obj in m.get("objectifs", [])`, lines 124 and 153: a missing field *)
(* gives no entry, a list its elements, a str its characters; a number is  *)
(* not iterable (TypeError).                                               *)
(***************************************************************************)
Iterable(x) == x.t \in {"absent", "list", "str"}

Iterate(x) ==
    CASE x.t = "list" -> x.l
      [] x.t = "str" -> [i \in 1..Len(x.s) |-> Str(<<x.s[i]>>)]
      [] OTHER -> <<>>

(***************************************************************************)
(* Elements of melanges.json's array: a JSON object with the fields the    *)
(* script reads, or something that is not an object.                       *)
(***************************************************************************)
Record(nom, objectifs, ingredients, preparation, precautions) ==
    [isdict |-> TRUE, nom |-> nom, objectifs |-> objectifs,
     ingredients |-> ingredients, preparation |-> preparation,
     precautions |-> precautions]

NotAnObject ==
    [isdict |-> FALSE, nom |-> AbsentV, objectifs |-> AbsentV,
     ingredients |-> AbsentV, preparation |-> AbsentV, precautions |-> AbsentV]

MissingFile == [kind |-> "missing", items |-> <<>>]
MalformedFile == [kind |-> "malformed", items |-> <<>>]
NotArrayFile == [kind |-> "notarray", items |-> <<>>]
ArrayFile(items) == [kind |-> "array", items |-> items]

NoCache == [valid |-> FALSE, value |-> <<>>]
Cached(value) == [valid |-> TRUE, value |-> value]

(***************************************************************************)
(* load_melanges line 88.                                                  *)
(***************************************************************************)
Cleaned(items) == SelectSeq(items, LAMBDA m : m.isdict)

(***************************************************************************)
(* objectif_map, lines 121-126.  A dict keeps its keys in insertion order; *)
(* assigning to a key already there replaces its value in place.           *)
(***************************************************************************)
HasKey(map, k) == \E i \in 1..Len(map) : map[i].k = k

SetItemKeepFirst(map, k, v) ==
    IF HasKey(map, k) THEN map ELSE Append(map, [k |-> k, v |-> v])

SetItem(map, k, v) ==
    IF HasKey(map, k)
    THEN [i \in 1..Len(map) |-> IF map[i].k = k THEN [k |-> k, v |-> v] ELSE map[i]]
    ELSE Append(map, [k |-> k, v |-> v])

GetItem(map, k) == map[CHOOSE i \in 1..Len(map) : map[i].k = k].v

Values(map) == [i \in 1..Len(map) |-> map[i].v]

RECURSIVE AddObjectifsRawKey(_, _)
AddObjectifsRawKey(map, objs) ==
    IF objs = <<>>
    THEN map
    ELSE AddObjectifsRawKey(
             IF Head(objs).t = "str"
             THEN SetItem(map, Head(objs).s, Head(objs).s)
             ELSE map,
             Tail(objs))

RECURSIVE AddObjectifs(_, _)
AddObjectifs(map, objs) ==
    IF objs = <<>>
    THEN map
    ELSE AddObjectifs(
             IF Head(objs).t = "str"
             THEN SetItem(map, normalize(Head(objs)), Head(objs).s)
             ELSE map,
             Tail(objs))

RECURSIVE BuildMap(_, _)
BuildMap(map, ms) ==
    IF ms = <<>>
    THEN map
    ELSE BuildMap(AddObjectifs(map, Iterate(Head(ms).objectifs)), Tail(ms))

(***************************************************************************)
(* sorted(...), line 128: str comparison is by code point, a proper prefix *)
(* first.                                                                  *)
(***************************************************************************)
RECURSIVE StrLess(_, _)
StrLess(a, b) ==
    IF b = <<>> THEN FALSE
    ELSE IF a = <<>> THEN TRUE
    ELSE IF Head(a) # Head(b) THEN CodePoint(Head(a)) < CodePoint(Head(b))
    ELSE StrLess(Tail(a), Tail(b))

RECURSIVE Insert(_, _)
Insert(x, sorted) ==
    IF sorted = <<>> THEN <<x>>
    ELSE IF StrLess(x, Head(sorted)) THEN <<x>> \o sorted
    ELSE <<Head(sorted)>> \o Insert(x, Tail(sorted))

RECURSIVE Sorted(_)
Sorted(strs) ==
    IF strs = <<>> THEN <<>>
    ELSE Insert(strs[Len(strs)], Sorted(SubSeq(strs, 1, Len(strs) - 1)))

(***************************************************************************)
(* The filter, lines 146-154.                                              *)
(***************************************************************************)
MatchesRaw(m, objectif_norm) ==
    \E i \in 1..Len(Iterate(m.objectifs)) :
        /\ Iterate(m.objectifs)[i].t = "str"
        /\ Iterate(m.objectifs)[i].s = objectif_norm

Matches(m, objectif_norm) ==
    \E i \in 1..Len(Iterate(m.objectifs)) :
        normalize(Iterate(m.objectifs)[i]) = objectif_norm

Filter(ms, label) ==
    SelectSeq(ms, LAMBDA m : Matches(m, normalize(Str(label))))

(***************************************************************************)
(* What st.* shows: one element per call, with the text it is given.       *)
(***************************************************************************)
Ev(w, n, text) == [w |-> w, n |-> n, text |-> text]

SansNom == <<"S", "a", "n", "s", "sp", "n", "o", "m">>

Dash == <<"-">>

\* str(x) inside an f-string
Format(x) == IF x.t = "str" THEN x.s ELSE <<"5">>

(***************************************************************************)
(* Lines 169-173 and 179-183: r.get(field, []), a str wrapped in a list,   *)
(* anything that is not a list replaced by [].                             *)
(***************************************************************************)
AsList(x) ==
    CASE x.t = "str" -> <<x>>
      [] x.t = "list" -> x.l
      [] OTHER -> <<>>

(***************************************************************************)
(* ", ".join(ingredients), line 176: TypeError on an item that is no str.  *)
(***************************************************************************)
JoinRaises(items) == \E i \in 1..Len(items) : items[i].t # "str"

RECURSIVE Join(_)
Join(items) ==
    IF Len(items) = 1 THEN Head(items).s
    ELSE Head(items).s \o <<",", "sp">> \o Join(Tail(items))

IngredientsLine(ingredients) ==
    IF ingredients = <<>> THEN Dash ELSE Join(ingredients)

PreparationLines(preparation) ==
    IF preparation = <<>>
    THEN <<Ev("write", 0, Dash)>>
    ELSE [i \in 1..Len(preparation) |-> Ev("step", i, Format(preparation[i]))]

PrecautionsLines(precautions) ==
    IF precautions.t = "str" /\ Strip(precautions.s) # <<>>
    THEN <<Ev("warning", 0, precautions.s)>>
    ELSE <<>>

(***************************************************************************)
(* One pass of the loop body, lines 165-195: what is shown, and whether    *)
(* the body ran to its end.                                                *)
(***************************************************************************)
RenderRecord(r) ==
    LET head == <<Ev("container", 0, <<>>),
                  Ev("nom", 0, IF r.nom.t = "absent" THEN SansNom ELSE Format(r.nom)),
                  Ev("h_ingredients", 0, <<>>)>>
        ingredients == AsList(r.ingredients)
        preparation == AsList(r.preparation)
    IN  IF JoinRaises(ingredients)
        THEN [ok |-> FALSE, out |-> head]
        ELSE [ok |-> TRUE,
              out |-> head
                      \o <<Ev("write", 0, IngredientsLine(ingredients)),
                           Ev("h_preparation", 0, <<>>)>>
                      \o PreparationLines(preparation)
                      \o PrecautionsLines(r.precautions)]

RECURSIVE RenderAll(_)
RenderAll(rs) ==
    IF rs = <<>>
    THEN [ok |-> TRUE, out |-> <<>>]
    ELSE LET first == RenderRecord(Head(rs))
         IN  IF ~first.ok
             THEN first
             ELSE LET rest == RenderAll(Tail(rs))
                  IN  [ok |-> rest.ok, out |-> first.out \o rest.out]

(***************************************************************************)
(* The contents of melanges.json the evaluation is run on.                 *)
(*   FilesWithin(MaxRecs, MaxEntries)                                      *)
(*                at most MaxRecs array elements holding at most           *)
(*                MaxEntries objectives in all, the other fields absent    *)
(*   RenderFiles  one record, every shape of the fields that are displayed *)
(*   BadFiles     no file, no JSON, no array                               *)
(***************************************************************************)
ObjectiveValues ==
    {Str(<<"S", "rsquo">>), Str(<<"s", "apos", "sp">>), Str(<<"Eacute">>),
     Str(<<"e">>), Str(<<"sp">>), Num}

BareStrings == {<<"Eacute">>, <<"S", "rsquo">>}

WithObjectifs(objectifs) == Record(AbsentV, objectifs, AbsentV, AbsentV, AbsentV)

RECURSIVE ListsOfLen(_)
ListsOfLen(k) ==
    IF k = 0 THEN {<<>>}
    ELSE {Append(l, v) : l \in ListsOfLen(k - 1), v \in ObjectiveValues}

ItemsOfSize(k) ==
    {WithObjectifs(List(l)) : l \in ListsOfLen(k)}
    \cup {WithObjectifs(Str(b)) : b \in {c \in BareStrings : Len(c) = k}}
    \cup (IF k = 0 THEN {NotAnObject, WithObjectifs(AbsentV), WithObjectifs(Num)}
          ELSE {})

RECURSIVE FilesWithin(_, _)
FilesWithin(n, budget) ==
    IF n = 0
    THEN {<<>>}
    ELSE {<<>>} \cup
         UNION {{<<item>> \o rest : item \in ItemsOfSize(k),
                                    rest \in FilesWithin(n - 1, budget - k)} :
                k \in 0..budget}

FieldShapes ==
    {AbsentV, Num, Str(<<"e">>), List(<<>>), List(<<Str(<<"e">>)>>),
     List(<<Str(<<"e">>), Str(<<"S">>)>>), List(<<Num>>),
     List(<<Str(<<"e">>), Num>>)}

RenderFiles ==
    {<<Record(nom, List(<<Str(<<"e">>)>>), ingredients, preparation, precautions)>> :
        nom \in {AbsentV, Str(<<"S">>)},
        ingredients \in FieldShapes,
        preparation \in FieldShapes,
        precautions \in {AbsentV, Num, Str(<<"sp">>), Str(<<"e">>)}}

BadFiles == {MissingFile, MalformedFile, NotArrayFile}

CachedSample == <<WithObjectifs(List(<<Str(<<"e">>)>>))>>

OtherInputs ==
    {[file |-> ArrayFile(f), cache |-> NoCache] : f \in RenderFiles \cup {<<>>}}
    \cup {[file |-> f, cache |-> NoCache] : f \in BadFiles}
    \cup {[file |-> f, cache |-> Cached(CachedSample)] :
             f \in BadFiles \cup {ArrayFile(<<>>)}}

(***************************************************************************)
(* Initial state: no session has run the script yet.                       *)
(***************************************************************************)
NoSessionYet ==
    /\ stored0 = COUNTER_FILE
    /\ visit_counted = [s \in Sessions |-> FALSE]
    /\ pc = [s \in Sessions |-> "idle"]
    /\ data = [s \in Sessions |-> Missing]
    /\ visits = [s \in Sessions |-> Unset]
    /\ run = [s \in Sessions |-> "none"]
    /\ calls = [s \in Sessions |-> 0]
    /\ completed = 0

NothingEvaluated ==
    /\ cache = NoCache
    /\ load_ran = "no"
    /\ melanges = <<>>
    /\ objectif_map = <<>>
    /\ objectifs_affiches = <<>>
    /\ objectif_label = <<>>
    /\ recs = <<>>
    /\ ui = <<>>

Init ==
    /\ COUNTER_FILE \in InitialFiles
    /\ NoSessionYet
    /\ DATA_FILE = ArrayFile(<<>>)
    /\ fpc = "off"
    /\ NothingEvaluated

Resting(s) == pc[s] \in {"idle", "crashed"}

(***************************************************************************)
(* First run of a session: lines 99-101, then count_visit lines 33-41.     *)
(***************************************************************************)
SetVisitCountedForgotten(s) == visit_counted

SetVisitCounted(s) == [visit_counted EXCEPT ![s] = TRUE]

FirstView(s) ==
    /\ Resting(s)
    /\ ~visit_counted[s]
    /\ visit_counted' = SetVisitCounted(s)
    /\ run' = [run EXCEPT ![s] = "first"]
    /\ calls' = [calls EXCEPT ![s] = @ + 1]
    /\ data' = [data EXCEPT ![s] = ReadDocument(COUNTER_FILE)]
    /\ visits' = [visits EXCEPT ![s] = Unset]
    /\ pc' = [pc EXCEPT ![s] = "cv_write"]
    /\ UNCHANGED <<COUNTER_FILE, completed, stored0>>
    /\ UNCHANGED fvars

(***************************************************************************)
(* count_visit lines 43-50: compute, store in data, write the file.        *)
(***************************************************************************)
CountVisitWrite(s) ==
    /\ pc[s] = "cv_write"
    /\ IF IntRaises(GetVisits(data[s]))
       THEN /\ pc' = [pc EXCEPT ![s] = "crashed"]
            /\ UNCHANGED <<COUNTER_FILE, visits, completed>>
       ELSE /\ visits' = [visits EXCEPT ![s] = IntVal(NewVisits(data[s]))]
            /\ COUNTER_FILE' = Dict(IntVal(NewVisits(data[s])))
            /\ completed' = completed + 1
            /\ pc' = [pc EXCEPT ![s] = "flow"]
    /\ data' = [data EXCEPT ![s] = Missing]
    /\ UNCHANGED <<visit_counted, run, calls, stored0>>
    /\ UNCHANGED fvars

(***************************************************************************)
(* A later run of the session: lines 102-110.                              *)
(***************************************************************************)
LaterView(s) ==
    /\ Resting(s)
    /\ visit_counted[s]
    /\ visits' = [visits EXCEPT ![s] = PeekValue(COUNTER_FILE)]
    /\ run' = [run EXCEPT ![s] = "later"]
    /\ pc' = [pc EXCEPT ![s] = "flow"]
    /\ UNCHANGED <<COUNTER_FILE, visit_counted, data, calls, completed, stored0>>
    /\ UNCHANGED fvars

(***************************************************************************)
(* The rest of the script, lines 115-195 (SpecFlow models it); the run     *)
(* ends and its local variables are gone.                                  *)
(***************************************************************************)
MainFlow(s) ==
    /\ pc[s] = "flow"
    /\ pc' = [pc EXCEPT ![s] = "idle"]
    /\ visits' = [visits EXCEPT ![s] = Unset]
    /\ UNCHANGED <<COUNTER_FILE, visit_counted, data, run, calls, completed,
                   stored0>>
    /\ UNCHANGED fvars

Next ==
    \/ \E s \in Sessions : FirstView(s)
    \/ \E s \in Sessions : CountVisitWrite(s)
    \/ \E s \in Sessions : LaterView(s)
    \/ \E s \in Sessions : MainFlow(s)

Spec == Init /\ [][Next]_vars

(***************************************************************************)
(* One evaluation of lines 115-195.  The counter is left aside: `visits`   *)
(* is only shown (line 135).  The cache entry is either fresh or not       *)
(* (ttl=1) when the evaluation starts.                                     *)
(***************************************************************************)
InitFlow ==
    /\ COUNTER_FILE = Missing
    /\ NoSessionYet
    /\ \/ \E in \in OtherInputs :
              /\ DATA_FILE = in.file
              /\ cache = in.cache
       \/ \E k \in 0..MaxEntries :
              \E item \in ItemsOfSize(k), rest \in FilesWithin(MaxRecs - 1, MaxEntries - k) :
                  /\ DATA_FILE = ArrayFile(<<item>> \o rest)
                  /\ cache = NoCache
    /\ fpc = "load"
    /\ load_ran = "no"
    /\ melanges = <<>>
    /\ objectif_map = <<>>
    /\ objectifs_affiches = <<>>
    /\ objectif_label = <<>>
    /\ recs = <<>>
    /\ ui = <<>>

(***************************************************************************)
(* load_melanges() under st.cache_data, lines 73-94 and 115.  st.stop()    *)
(* ends the run; nothing is cached then.                                   *)
(***************************************************************************)
LoadOutcomeNoStop(file) ==
    CASE file.kind = "missing" ->
            [stop |-> TRUE, out |-> <<Ev("error_introuvable", 0, <<>>)>>]
      [] file.kind = "notarray" ->
            [stop |-> FALSE, out |-> <<Ev("error_liste", 0, <<>>)>>]
      [] file.kind = "malformed" ->
            [stop |-> TRUE, out |-> <<Ev("error_json", 0, <<>>),
                                      Ev("exception", 0, <<>>)>>]
      [] OTHER -> [stop |-> FALSE, out |-> <<>>]

LoadOutcome(file) ==
    CASE file.kind = "missing" ->
            [stop |-> TRUE, out |-> <<Ev("error_introuvable", 0, <<>>)>>]
      [] file.kind = "notarray" ->
            [stop |-> TRUE, out |-> <<Ev("error_liste", 0, <<>>)>>]
      [] file.kind = "malformed" ->
            [stop |-> TRUE, out |-> <<Ev("error_json", 0, <<>>),
                                      Ev("exception", 0, <<>>)>>]
      [] OTHER -> [stop |-> FALSE, out |-> <<>>]

Load ==
    /\ fpc = "load"
    /\ IF cache.valid
       THEN /\ load_ran' = "cache"
            /\ melanges' = cache.value
            /\ fpc' = "index"
            /\ UNCHANGED <<cache, ui>>
       ELSE /\ load_ran' = "body"
            /\ ui' = ui \o LoadOutcome(DATA_FILE).out
            /\ IF LoadOutcome(DATA_FILE).stop
               THEN /\ fpc' = "stopped"
                    /\ UNCHANGED <<cache, melanges>>
               ELSE /\ melanges' = Cleaned(DATA_FILE.items)
                    /\ cache' = Cached(Cleaned(DATA_FILE.items))
                    /\ fpc' = "index"
    /\ UNCHANGED <<DATA_FILE, objectif_map, objectifs_affiches, objectif_label, recs>>
    /\ UNCHANGED cvars

(***************************************************************************)
(* Lines 121-128.                                                          *)
(***************************************************************************)
BuildIndex ==
    /\ fpc = "index"
    /\ IF \E i \in 1..Len(melanges) : ~Iterable(melanges[i].objectifs)
       THEN /\ fpc' = "crashed_index"
            /\ UNCHANGED <<objectif_map, objectifs_affiches>>
       ELSE /\ objectif_map' = BuildMap(<<>>, melanges)
            /\ objectifs_affiches' = Sorted(Values(BuildMap(<<>>, melanges)))
            /\ fpc' = "header"
    /\ UNCHANGED <<DATA_FILE, cache, load_ran, melanges, objectif_label, recs, ui>>
    /\ UNCHANGED cvars

(***************************************************************************)
(* Lines 133-139.                                                          *)
(***************************************************************************)
Header ==
    /\ fpc = "header"
    /\ IF objectifs_affiches = <<>>
       THEN /\ ui' = ui \o <<Ev("title", 0, <<>>), Ev("disclaimer", 0, <<>>),
                             Ev("caption", 0, <<>>),
                             Ev("error_aucun_objectif", 0, <<>>)>>
            /\ fpc' = "stopped"
       ELSE /\ ui' = ui \o <<Ev("title", 0, <<>>), Ev("disclaimer", 0, <<>>),
                             Ev("caption", 0, <<>>)>>
            /\ fpc' = "select"
    /\ UNCHANGED <<DATA_FILE, cache, load_ran, melanges, objectif_map,
                   objectifs_affiches, objectif_label, recs>>
    /\ UNCHANGED cvars

(***************************************************************************)
(* Lines 141-144: the picker returns one of its options.                   *)
(***************************************************************************)
Select ==
    /\ fpc = "select"
    /\ \E i \in 1..Len(objectifs_affiches) :
        objectif_label' = objectifs_affiches[i]
    /\ ui' = Append(ui, Ev("selectbox", 0, <<>>))
    /\ fpc' = "filter"
    /\ UNCHANGED <<DATA_FILE, cache, load_ran, melanges, objectif_map,
                   objectifs_affiches, recs>>
    /\ UNCHANGED cvars

(***************************************************************************)
(* Lines 146-154.                                                          *)
(***************************************************************************)
FilterRecs ==
    /\ fpc = "filter"
    /\ recs' = Filter(melanges, objectif_label)
    /\ fpc' = "render"
    /\ UNCHANGED <<DATA_FILE, cache, load_ran, melanges, objectif_map,
                   objectifs_affiches, objectif_label, ui>>
    /\ UNCHANGED cvars

(***************************************************************************)
(* Lines 159-195.                                                          *)
(***************************************************************************)
Render ==
    /\ fpc = "render"
    /\ IF recs = <<>>
       THEN /\ ui' = ui \o <<Ev("subheader", 0, <<>>), Ev("info_aucune", 0, <<>>)>>
            /\ fpc' = "done"
       ELSE /\ ui' = ui \o <<Ev("subheader", 0, <<>>)>> \o RenderAll(recs).out
            /\ fpc' = IF RenderAll(recs).ok THEN "done" ELSE "crashed_render"
    /\ UNCHANGED <<DATA_FILE, cache, load_ran, melanges, objectif_map,
                   objectifs_affiches, objectif_label, recs>>
    /\ UNCHANGED cvars

NextFlow ==
    \/ Load
    \/ BuildIndex
    \/ Header
    \/ Select
    \/ FilterRecs
    \/ Render

SpecFlow == InitFlow /\ [][NextFlow]_vars

(***************************************************************************)
(* C1.  Within one session count_visit is called exactly once, in the      *)
(* session's first run; every later run of the session goes straight to    *)
(* the read-only branch and leaves visits.json as it is; the file changes  *)
(* only in a count_visit.                                                  *)
(***************************************************************************)
C1_OncePerSession ==
    /\ [](\A s \in Sessions :
            /\ calls[s] = (IF run[s] = "none" THEN 0 ELSE 1)
            /\ (pc[s] = "cv_write" => run[s] = "first"))
    /\ [][/\ \A s \in Sessions :
               (run[s] # "none" /\ Resting(s) /\ pc'[s] # pc[s])
                   => /\ COUNTER_FILE' = COUNTER_FILE
                      /\ calls'[s] = calls[s]
                      /\ run'[s] = "later"
                      /\ pc'[s] = "flow"
          /\ (COUNTER_FILE' # COUNTER_FILE
                 => \E s \in Sessions : pc[s] = "cv_write" /\ run[s] = "first")
         ]_vars

\* A session in a later run, after its one count_visit, with the file unchanged by it.
C1_Witness ==
    \E s \in Sessions :
        /\ run[s] = "later" /\ pc[s] = "flow" /\ calls[s] = 1
        /\ completed = 1
        /\ visits[s] = COUNTER_FILE.visits

(***************************************************************************)
(* C2.  An increment that read {"visits": n} and writes before anyone      *)
(* else has written returns n+1 and stores n+1; a peek of {"visits": m}    *)
(* returns m and leaves the file unchanged.  So from 5: 6, then 7, and a   *)
(* peek gives 7.                                                           *)
(***************************************************************************)
C2_IncrementThenPeek ==
    [][\A s \in Sessions :
         /\ (/\ pc[s] = "cv_write" /\ pc'[s] # "cv_write"
             /\ IsIntDoc(COUNTER_FILE) /\ data[s] = COUNTER_FILE)
                => /\ visits'[s] = IntVal(COUNTER_FILE.visits.v + 1)
                   /\ COUNTER_FILE' = Dict(IntVal(COUNTER_FILE.visits.v + 1))
                   /\ pc'[s] = "flow"
         /\ (/\ Resting(s) /\ run'[s] = "later" /\ pc'[s] = "flow"
             /\ IsIntDoc(COUNTER_FILE))
                => /\ visits'[s] = COUNTER_FILE.visits
                   /\ COUNTER_FILE' = COUNTER_FILE
      ]_vars

\* From n = MaxStored: two increments done one after the other, then a peek of n+2.
C2_Witness ==
    /\ stored0 = Dict(IntVal(MaxStored))
    /\ completed = 2
    /\ COUNTER_FILE = Dict(IntVal(MaxStored + 2))
    /\ \E s, t \in Sessions :
        /\ s # t
        /\ run[s] = "later" /\ pc[s] = "flow" /\ visits[s] = IntVal(MaxStored + 2)
        /\ run[t] = "first" /\ pc[t] = "flow" /\ visits[t] = IntVal(MaxStored + 2)

(***************************************************************************)
(* C3.  The stored counter never decreases: no step replaces a stored      *)
(* integer by a smaller one.                                               *)
(***************************************************************************)
C3_Monotone ==
    [][(IsIntDoc(COUNTER_FILE) /\ IsIntDoc(COUNTER_FILE'))
          => COUNTER_FILE'.visits.v >= COUNTER_FILE.visits.v]_vars

(***************************************************************************)
(* C4.  count_visit never fails, whatever visits.json holds, and when the  *)
(* file was missing, invalid, not an object, or an object without an       *)
(* integer "visits", the first increment writes 1 and returns 1.           *)
(***************************************************************************)
C4_IncrementNeverFails ==
    \A s \in Sessions :
        /\ pc[s] # "crashed"
        /\ (/\ pc[s] = "flow" /\ run[s] = "first" /\ completed = 1
            /\ ~IsIntDoc(stored0))
               => /\ visits[s] = IntVal(1)
                  /\ COUNTER_FILE = Dict(IntVal(1))

(***************************************************************************)
(* C9.  Starting from {"visits": n}, after k completed increments the      *)
(* stored value is at most n + k (and can be less: see the witness).       *)
(***************************************************************************)
C9_AtMostOnePerIncrement ==
    IsIntDoc(stored0)
        => /\ IsIntDoc(COUNTER_FILE)
           /\ COUNTER_FILE.visits.v <= stored0.visits.v + completed

\* Increments interleaved, all finished, and an update lost.
C9_LostUpdate ==
    /\ IsIntDoc(stored0) /\ IsIntDoc(COUNTER_FILE)
    /\ \A s \in Sessions : pc[s] # "cv_write"
    /\ completed >= 2
    /\ COUNTER_FILE.visits.v < stored0.visits.v + completed

(***************************************************************************)
(* Helpers of the statements about the index and the filter.               *)
(***************************************************************************)
RECURSIVE Concat(_)
Concat(seqs) == IF seqs = <<>> THEN <<>> ELSE Head(seqs) \o Concat(Tail(seqs))

Range(f) == {f[i] : i \in DOMAIN f}

\* the str objectives of all records, outer over records, inner over each list
StringObjectives(ms) ==
    SelectSeq(Concat([i \in 1..Len(ms) |-> Iterate(ms[i].objectifs)]),
              LAMBDA o : o.t = "str")

\* the original text of the last str objective whose normalized form is k
LastLabel(ms, k) ==
    LET objs == StringObjectives(ms)
        last == CHOOSE i \in 1..Len(objs) :
                    /\ normalize(objs[i]) = k
                    /\ \A j \in (i + 1)..Len(objs) : normalize(objs[j]) # k
    IN  objs[last].s

\* lines 121-128 have run (a run stopped by load_melanges never gets there)
IndexBuilt ==
    \/ fpc \in {"header", "select", "filter", "render", "done", "crashed_render"}
    \/ fpc = "stopped" /\ \E i \in 1..Len(ui) : ui[i].w = "error_aucun_objectif"

Filtered == fpc \in {"render", "done", "crashed_render"}

LabelPool ==
    {o.s : o \in {v \in ObjectiveValues : v.t = "str"}} \cup {<<"Eacute", "s">>, <<>>}

HasEntryFor(m, label) ==
    \E o \in Range(Iterate(m.objectifs)) : normalize(o) = normalize(Str(label))

IsFilterResult(result, ms, label) ==
    /\ Len(result) = Cardinality({i \in 1..Len(ms) : HasEntryFor(ms[i], label)})
    /\ \A j \in 1..Len(result) : HasEntryFor(result[j], label)
    /\ \A i \in 1..Len(ms) :
           HasEntryFor(ms[i], label) => \E j \in 1..Len(result) : result[j] = ms[i]
    /\ \A i \in 1..Len(ms) :
           ms[i].objectifs.t = "absent"
               => \A j \in 1..Len(result) : result[j] # ms[i]

\* lines 121-128 have just run
JustIndexed ==
    IndexBuilt /\ fpc \in {"header", "stopped"}

(***************************************************************************)
(* C5.  Once the index is built, the display list holds exactly one label  *)
(* per distinct normalized key of the records' str objectives, and the     *)
(* label of a key is the original text of the last str objective with that *)
(* key, in iteration order (records in file order, then each list).        *)
(***************************************************************************)
C5_OneLabelPerKeyLastWins ==
    IndexBuilt =>
        LET keys == {normalize(o) : o \in Range(StringObjectives(melanges))}
        IN  /\ Len(objectifs_affiches) = Cardinality(keys)
            /\ Range(objectifs_affiches) = {LastLabel(melanges, k) : k \in keys}
            /\ \A k \in keys :
                   /\ HasKey(objectif_map, k)
                   /\ GetItem(objectif_map, k) = LastLabel(melanges, k)

\* ["S’"] then ["s' "], the same key: one display entry, the later label.
C5_Witness ==
    /\ fpc = "header"
    /\ Len(melanges) = 2
    /\ melanges[1].objectifs = List(<<Str(<<"S", "rsquo">>)>>)
    /\ melanges[2].objectifs = List(<<Str(<<"s", "apos", "sp">>)>>)
    /\ objectifs_affiches = << <<"s", "apos", "sp">> >>

(***************************************************************************)
(* C6.  A record is in the filter result exactly when one entry of its     *)
(* objectives, once normalized, equals the normalized label: for the label *)
(* picked (recs) and for any label at all (an empty result is a value, not *)
(* an error).  A record without `objectifs` adds nothing to the index and  *)
(* is in no filter result.                                                 *)
(***************************************************************************)
C6_FilterIffSomeEntryMatches ==
    /\ Filtered => IsFilterResult(recs, melanges, objectif_label)
    /\ JustIndexed =>
          /\ \A label \in LabelPool :
                 IsFilterResult(Filter(melanges, label), melanges, label)
          /\ objectif_map =
                 BuildMap(<<>>, SelectSeq(melanges,
                                          LAMBDA m : m.objectifs.t # "absent"))

\* Two records, one without `objectifs`; the filter keeps the other one only.
C6_Witness ==
    /\ fpc = "render"
    /\ Len(melanges) = 2
    /\ \E i \in 1..2 : melanges[i].objectifs.t = "absent"
    /\ Len(recs) = 1
    /\ \E label \in LabelPool : Filter(melanges, label) = <<>>

(***************************************************************************)
(* C7.  When load_melanges runs on a file that is missing, malformed or    *)
(* not an array, the run stops there: only its error is shown, never the   *)
(* picker nor any recommendation.                                          *)
(***************************************************************************)
C7_BadDataFileHalts ==
    (load_ran = "body" /\ DATA_FILE.kind # "array")
        => /\ fpc = "stopped"
           /\ ui # <<>>
           /\ \A i \in 1..Len(ui) :
                  ui[i].w \in {"error_introuvable", "error_liste", "error_json",
                               "exception"}

\* A top-level JSON object: the load ran and the run is stopped.
C7_Witness ==
    /\ load_ran = "body"
    /\ DATA_FILE = NotArrayFile
    /\ fpc = "stopped"

(***************************************************************************)
(* C8.  Displaying a record never fails, whatever the shape of             *)
(* `ingredients` and `preparation`; a value that is neither a str nor a    *)
(* list is shown as the placeholder, and a bare str as the list holding    *)
(* it.                                                                     *)
(***************************************************************************)
C8_DisplayNeverFails ==
    /\ fpc # "crashed_render"
    /\ fpc = "done" =>
          \A j \in 1..Len(recs) :
              LET r == recs[j]
              IN  /\ RenderRecord(r).ok
                  /\ r.ingredients.t \notin {"str", "list"}
                         => RenderRecord(r).out[4] = Ev("write", 0, Dash)
                  /\ r.ingredients.t = "str"
                         => RenderRecord(r).out =
                                RenderRecord([r EXCEPT !.ingredients =
                                                  List(<<r.ingredients>>)]).out

(***************************************************************************)
(* C10.  Every label of the display list selects at least one record, and  *)
(* looking up its normalized form in the index gives the label back; so    *)
(* the filter result of a picked label is never empty and the "no          *)
(* recommendation" message is never shown.                                 *)
(***************************************************************************)
C10_EveryLabelSelects ==
    /\ IndexBuilt =>
          \A i \in 1..Len(objectifs_affiches) :
              LET label == objectifs_affiches[i]
              IN  /\ Filter(melanges, label) # <<>>
                  /\ HasKey(objectif_map, normalize(Str(label)))
                  /\ GetItem(objectif_map, normalize(Str(label))) = label
    /\ Filtered => recs # <<>>
    /\ \A i \in 1..Len(ui) : ui[i].w # "info_aucune"

\* Two labels offered, one picked, its records shown.
C10_Witness ==
    /\ fpc = "done"
    /\ Len(objectifs_affiches) = 2
    /\ objectif_label = objectifs_affiches[2]
    /\ recs # <<>>
    /\ Len(recs) < Len(melanges)

====
